---- MODULE Spec2Model ----
(***************************************************************************)
(* Model of cierre_sensei_report.py: the font resolver _load_font, the     *)
(* helper _get_font_size and the renderer generate_cierre_sensei_png.      *)
(*                                                                         *)
(* Conventions                                                             *)
(*  - Python strings are TLA+ strings; an optional argument is None (the   *)
(*    empty tuple) or Some(s) (a one-element tuple).                       *)
(*  - Monetary amounts are counted in halves (value = h / 2), which are    *)
(*    exactly representable as floats, so the rounding done by "{:,.0f}"   *)
(*    (round half to even) is modelled exactly.  Percentages are counted   *)
(*    in tenths (value = t / 10), which "{:.1f}" prints without rounding.  *)
(*  - The canvas is the background colour plus the ordered log of drawing  *)
(*    operations issued on it.  Each logged operation carries two history  *)
(*    fields, sec and idx, naming the source statement that issued it and, *)
(*    inside a loop, the 1-based position of the entry being drawn.        *)
(*  - The file system is the ordered log of img.save calls.                *)
(***************************************************************************)
EXTENDS Integers, Sequences, FiniteSets, TLC

VARIABLES
    args,           \* arguments of the running call
    installed,      \* environment: font files ImageFont.truetype can open
    default_size,   \* environment: size _get_font_size reports for load_default()
    pc,             \* position in generate_cierre_sensei_png
    palette,        \* bg_color, title_color, text_color, separator_color, box_outline
    img,            \* canvas: [size, bg, ops]
    fonts,          \* title_font, section_font, normal_font, small_font, totals_font
    lf,             \* frame of the running _load_font call
    prepared_date,  \* local prepared_date after defaulting
    y,              \* layout cursor
    i,              \* position of the running for loop
    fs,             \* log of img.save calls
    today_reads,    \* log of values returned by date.today()
    result,         \* outcome of the call: "none", "image" or "raised"
    calls,          \* number of calls started
    history         \* records of the calls that have ended, oldest first

vars == <<args, installed, default_size, pc, palette, img, fonts, lf,
          prepared_date, y, i, fs, today_reads, result, calls, history>>

-----------------------------------------------------------------------------
(* Bounds of the model *)

MaxSummary == 2
MaxItems == 2
MaxAddons == 2
MaxFlood == 38
MaxCalls == 3

-----------------------------------------------------------------------------
(* Python values *)

None == <<>>
Some(s) == <<s>>

Truthy(opt) == opt # None /\ opt[1] # ""

Digit == <<"0", "1", "2", "3", "4", "5", "6", "7", "8", "9">>

RECURSIVE IntToStr(_)
IntToStr(n) ==
    IF n < 10 THEN Digit[n + 1]
    ELSE IntToStr(n \div 10) \o Digit[(n % 10) + 1]

Abs(n) == IF n < 0 THEN -n ELSE n

\* round(n / d) to the nearest integer, ties to the even one (n >= 0, d > 0)
RoundHalfEven(n, d) ==
    LET fl == n \div d
        r2 == 2 * (n % d)
    IN  IF r2 < d THEN fl
        ELSE IF r2 > d THEN fl + 1
        ELSE IF fl % 2 = 0 THEN fl ELSE fl + 1

Pad3(n) ==
    Digit[(n \div 100) + 1] \o Digit[((n \div 10) % 10) + 1] \o Digit[(n % 10) + 1]

\* the "," option of the format specification: groups of three digits
RECURSIVE Grouped(_)
Grouped(n) ==
    IF n < 1000 THEN IntToStr(n)
    ELSE Grouped(n \div 1000) \o "," \o Pad3(n % 1000)

\* "${:,.0f}".format(val), val = h / 2
fmt_currency(h) ==
    "$" \o (IF h < 0 THEN "-" ELSE "") \o Grouped(RoundHalfEven(Abs(h), 2))

\* "{:.1f}".format(val), val = t / 10
fmt_pct(t) ==
    (IF t < 0 THEN "-" ELSE "")
        \o IntToStr(Abs(t) \div 10) \o "." \o Digit[(Abs(t) % 10) + 1]

\* f"{today.month}/{today.day}/{today.year}"
fmt_date(d) ==
    IntToStr(d.month) \o "/" \o IntToStr(d.day) \o "/" \o IntToStr(d.year)


-----------------------------------------------------------------------------
(* _load_font and _get_font_size *)

NoFont == [kind |-> "none", name |-> "", size |-> 0]

\* ImageFont.load_default()
DefaultFont == [kind |-> "default", name |-> "", size |-> 0]

\* the handle ImageFont.truetype(name, size=size) returns
TrueTypeFont(name, size) == [kind |-> "truetype", name |-> name, size |-> size]

BoldCandidates == <<"DejaVuSans-Bold.ttf", "Arial Bold.ttf", "Arial-Bold.ttf">>

RegularCandidates == <<"DejaVuSans.ttf", "Arial.ttf">>

font_candidates(bold) == IF bold THEN BoldCandidates ELSE RegularCandidates

FontFiles ==
    {BoldCandidates[k] : k \in 1..Len(BoldCandidates)}
        \cup {RegularCandidates[k] : k \in 1..Len(RegularCandidates)}

\* sizes _get_font_size can report for the built-in font: the .size of the
\* FreeType-backed default, or the height of the bitmap default's "M"
DefaultSizes == {10, 11}

_get_font_size(font) ==
    IF font.kind = "truetype" THEN font.size ELSE default_size

\* the five _load_font calls of the renderer, in call order
FontRequests == <<
    [var |-> "title_font",   size |-> 72, bold |-> TRUE],
    [var |-> "section_font", size |-> 42, bold |-> TRUE],
    [var |-> "normal_font",  size |-> 32, bold |-> FALSE],
    [var |-> "small_font",   size |-> 28, bold |-> FALSE],
    [var |-> "totals_font",  size |-> 38, bold |-> TRUE] >>

NoFonts ==
    [title_font |-> NoFont, section_font |-> NoFont, normal_font |-> NoFont,
     small_font |-> NoFont, totals_font |-> NoFont]

NoFrame == [call |-> 0, size |-> 0, bold |-> FALSE, tried |-> <<>>, ret |-> NoFont]

\* entry of the k-th _load_font call
Frame(k) ==
    [call |-> k, size |-> FontRequests[k].size, bold |-> FontRequests[k].bold,
     tried |-> <<>>, ret |-> NoFont]

-----------------------------------------------------------------------------
(* Theme, canvas and drawing operations *)

LightPalette ==
    [bg_color |-> <<255, 255, 255>>, title_color |-> <<0, 0, 0>>,
     text_color |-> <<0, 0, 0>>, separator_color |-> <<100, 100, 100>>,
     box_outline |-> <<0, 0, 0>>]

DarkPalette ==
    [bg_color |-> <<30, 50, 80>>, title_color |-> <<100, 150, 255>>,
     text_color |-> <<255, 255, 255>>, separator_color |-> <<150, 180, 220>>,
     box_outline |-> <<150, 180, 220>>]

NoPalette ==
    [bg_color |-> <<>>, title_color |-> <<>>, text_color |-> <<>>,
     separator_color |-> <<>>, box_outline |-> <<>>]

PaletteIgnoringTheme(theme) == DarkPalette

Palette(theme) == IF theme = "light" THEN LightPalette ELSE DarkPalette

WIDTH == 1800
HEIGHT == 2400
margin_x == 120
margin_y == 100

NoImage == [size |-> <<0, 0>>, bg |-> <<>>, ops |-> <<>>]

\* Image.new("RGB", (WIDTH, HEIGHT), bg_color)
NewImage(bg) == [size |-> <<WIDTH, HEIGHT>>, bg |-> bg, ops |-> <<>>]

\* width of draw.textbbox((0, 0), text, font=font): glyph metrics are
\* abstracted to a fixed advance of half the font size per character
TextWidth(text, font) == Len(text) * (_get_font_size(font) \div 2)

\* draw.text((x, yy), text, font=font, fill=fill)
Text(sec, idx, x, yy, text, font, fill) ==
    [op |-> "text", sec |-> sec, idx |-> idx, xy |-> <<x, yy>>, text |-> text,
     font |-> font, fill |-> fill, width |-> 0]

\* draw.line((margin_x, yy, WIDTH - margin_x, yy), fill=fill, width=2)
Line(sec, yy, fill) ==
    [op |-> "line", sec |-> sec, idx |-> 0,
     xy |-> <<margin_x, yy, WIDTH - margin_x, yy>>, text |-> "",
     font |-> NoFont, fill |-> fill, width |-> 2]

Draw(ops) == [img EXCEPT !.ops = img.ops \o ops]


-----------------------------------------------------------------------------
(* Arguments and environments *)

SeqsUpTo(S, n) == UNION {[1..k -> S] : k \in 0..n}

Distinct(s) == \A a, b \in 1..Len(s) : a # b => s[a] # s[b]

\* purchase_summary is a dict: a sequence of (key, value) with distinct keys
SummaryEntries == {<<"Type", "Condo">>, <<"Purchase Price", "$500,000 USD">>}

SummarySeqs ==
    {s \in SeqsUpTo(SummaryEntries, MaxSummary) :
        Distinct([k \in 1..Len(s) |-> s[k][1]])}

\* (description, min_amount, max_amount, notes), amounts in halves
ItemEntries ==
    {<<"ISAI 3%", 30000, 30000, "% of purchase price">>,
     <<"Credit", -3001, 9000, "">>,
     <<"Rounding", 5, 3, "max < min">>}

ItemSeqs == SeqsUpTo(ItemEntries, MaxItems)

AddonEntries == {"Title Insurance", "Attorney"}

AddonSeqs == SeqsUpTo(AddonEntries, MaxAddons)

Themes == {"dark", "light", "mockup"}

SponsorTexts == {None, Some(""), Some("Sponsored by Sensei")}

PreparedDates == {None, Some("12/1/2025")}

Filenames == {"cierre_sensei_report.png", "out/report.png"}

\* (est_min, est_max) in halves, (eff_min_pct, eff_max_pct) in tenths
Totals == {<<58280, 69920, 58, 70>>, <<2469135, -1, -3, 0>>}

\* values date.today() can return
Dates == {[year |-> 2025, month |-> 12, day |-> 1], [year |-> 2026, month |-> 1, day |-> 15]}

MakeArgs(summary, addons, items, totals, filename, date, theme, sponsor) ==
    [purchase_summary |-> summary, addons |-> addons, line_items |-> items,
     est_min |-> totals[1], est_max |-> totals[2],
     eff_min_pct |-> totals[3], eff_max_pct |-> totals[4],
     filename |-> filename, prepared_date |-> date, theme |-> theme,
     sponsor_text |-> sponsor]

\* the call of the stand-alone usage block
ExampleArgs ==
    MakeArgs(
        << <<"Purchase Price", "$500,000 USD">>, <<"Type", "Condo">>,
           <<"State", "Quintana Roo">>, <<"Restricted Zone", "Yes">>,
           <<"Foreign Buyer", "Yes">> >>,
        <<"Title Insurance", "Home Inspection", "Attorney", "Translator",
          "Closing Coordinator">>,
        << <<"ISAI 3%", 30000, 30000, "% of purchase price">>,
           <<"Notarial Fees", 6000, 9000, "Range">>,
           <<"Registration", 3000, 5000, "">>,
           <<"Escrow", 1500, 1500, "Flat fee">>,
           <<"Certificates", 80, 120, "">>,
           <<"Appraisal", 1000, 5000, "">>,
           <<"Fideicomiso Setup", 2000, 4000, "If restricted + foreign">>,
           <<"Fideicomiso Permit", 2200, 2200, "One-time fee">>,
           <<"Fideicomiso Annual", 1000, 1600, "Recurring">>,
           <<"Title Insurance", 3000, 3000, "">>,
           <<"Home Inspection", 1000, 1000, "">>,
           <<"Attorney", 5000, 5000, "">>,
           <<"Translator", 1000, 1000, "">>,
           <<"Closing Coordinator", 1500, 1500, "">> >>,
        <<58280, 69920, 58, 70>>,
        "cierre_sensei_report.png", Some("12/1/2025"), "dark", None)

\* the collections vary, the options are those of the example
LayoutArgs ==
    {MakeArgs(s, a, l, <<58280, 69920, 58, 70>>, "cierre_sensei_report.png",
              Some("12/1/2025"), "dark", None) :
        s \in SummarySeqs, a \in AddonSeqs, l \in ItemSeqs}

\* the options vary, each collection has one entry
OptionArgs ==
    {MakeArgs(<< <<"Type", "Condo">> >>, <<"Attorney">>,
              << <<"Credit", -3001, 9000, "">> >>, t, f, d, th, sp) :
        t \in Totals, f \in Filenames, d \in PreparedDates, th \in Themes,
        sp \in SponsorTexts}

\* more add-ons than the canvas has room for
FloodArgs ==
    MakeArgs(<<>>, [k \in 1..MaxFlood |-> "Extra"], <<>>, <<58280, 69920, 58, 70>>,
             "cierre_sensei_report.png", Some("12/1/2025"), "light", Some("Ad"))

AllInstalled == FontFiles

\* environments of the layout runs: (installed, default_size)
LayoutEnvs ==
    {<<AllInstalled, 10>>, <<{}, 11>>, <<{"Arial.ttf"}, 10>>, <<{"Arial-Bold.ttf"}, 11>>}

\* the calls a caller repeats
RepeatArgs ==
    {MakeArgs(<< <<"Type", "Condo">> >>, <<"Attorney">>,
              << <<"Rounding", 5, 3, "max < min">> >>, <<58280, 69920, 58, 70>>,
              "cierre_sensei_report.png", Some("12/1/2025"), "dark",
              Some("Sponsored by Sensei")),
     MakeArgs(<< <<"Type", "Condo">> >>, <<"Attorney">>,
              << <<"Rounding", 5, 3, "max < min">> >>, <<58280, 69920, 58, 70>>,
              "cierre_sensei_report.png", Some("12/1/2025"), "light", None),
     MakeArgs(<<>>, <<>>, <<>>, <<58280, 69920, 58, 70>>,
              "out/report.png", None, "light", None)}

Locals ==
    /\ pc = "start"
    /\ palette = NoPalette
    /\ img = NoImage
    /\ fonts = NoFonts
    /\ lf = NoFrame
    /\ prepared_date = None
    /\ y = 0
    /\ i = 0
    /\ result = "none"

\* the state at the entry of the first call
Init ==
    /\ \/ /\ args \in LayoutArgs
          /\ \E e \in LayoutEnvs : installed = e[1] /\ default_size = e[2]
       \/ /\ args \in OptionArgs
          /\ installed \in {AllInstalled, {}}
          /\ default_size = 10
       \/ /\ args \in {ExampleArgs, FloodArgs}
          /\ installed \in SUBSET FontFiles
          /\ default_size \in DefaultSizes
    /\ Locals
    /\ fs = <<>>
    /\ today_reads = <<>>
    /\ calls = 1
    /\ history = <<>>


-----------------------------------------------------------------------------
(* _load_font, one step per ImageFont call *)

\* what ImageFont.truetype raises for a font file it cannot open
LookupError == "OSError"

ExceptImportError(err) == err = "ImportError"

\* except Exception: the errors the handler of the lookup catches
ExceptException(err) == err \in {"OSError", "ImportError", "ValueError"}

\* for name in font_candidates: try: return ImageFont.truetype(name, size=size)
TryCandidate ==
    /\ pc = "load_font"
    /\ lf.ret = NoFont
    /\ Len(lf.tried) < Len(font_candidates(lf.bold))
    /\ LET name == font_candidates(lf.bold)[Len(lf.tried) + 1]
       IN  IF name \in installed
           THEN /\ lf' = [lf EXCEPT !.tried = Append(@, name),
                                    !.ret = TrueTypeFont(name, lf.size)]
                /\ UNCHANGED <<pc, result>>
           ELSE IF ExceptException(LookupError)
           THEN /\ lf' = [lf EXCEPT !.tried = Append(@, name)]
                /\ UNCHANGED <<pc, result>>
           ELSE /\ lf' = [lf EXCEPT !.tried = Append(@, name)]
                /\ pc' = "done"
                /\ result' = "raised"
    /\ UNCHANGED <<args, installed, default_size, palette, img, fonts,
                   prepared_date, y, i, fs, today_reads, calls, history>>

\* return ImageFont.load_default()
LoadDefault ==
    /\ pc = "load_font"
    /\ lf.ret = NoFont
    /\ Len(lf.tried) = Len(font_candidates(lf.bold))
    /\ lf' = [lf EXCEPT !.ret = DefaultFont]
    /\ UNCHANGED <<args, installed, default_size, pc, palette, img, fonts,
                   prepared_date, y, i, fs, today_reads, result, calls, history>>

\* the caller binds the returned font and makes the next _load_font call
LoadFontReturn ==
    /\ pc = "load_font"
    /\ lf.ret # NoFont
    /\ fonts' = [fonts EXCEPT ![FontRequests[lf.call].var] = lf.ret]
    /\ IF lf.call < Len(FontRequests)
       THEN lf' = Frame(lf.call + 1) /\ pc' = pc
       ELSE lf' = NoFrame /\ pc' = "date"
    /\ UNCHANGED <<args, installed, default_size, palette, img,
                   prepared_date, y, i, fs, today_reads, result, calls, history>>

-----------------------------------------------------------------------------
(* generate_cierre_sensei_png *)

CachedImage(bg) == IF img = NoImage THEN NewImage(bg) ELSE [img EXCEPT !.bg = bg]

\* img = Image.new(...); draw = ImageDraw.Draw(img)
Canvas(bg) == NewImage(bg)

\* theme, canvas, first _load_font call
Begin ==
    /\ pc = "start"
    /\ palette' = Palette(args.theme)
    /\ img' = Canvas(Palette(args.theme).bg_color)
    /\ lf' = Frame(1)
    /\ pc' = "load_font"
    /\ UNCHANGED <<args, installed, default_size, fonts, prepared_date, y, i,
                   fs, today_reads, result, calls, history>>

\* if prepared_date is None: today = date.today() ...; y = margin_y
PrepareDate ==
    /\ pc = "date"
    /\ IF args.prepared_date = None
       THEN \E today \in Dates :
                /\ prepared_date' = Some(fmt_date(today))
                /\ today_reads' = Append(today_reads, today)
       ELSE /\ prepared_date' = args.prepared_date
            /\ UNCHANGED today_reads
    /\ y' = margin_y
    /\ pc' = "title"
    /\ UNCHANGED <<args, installed, default_size, palette, img, fonts, lf, i,
                   fs, result, calls, history>>

title_text == "Estimated Closing Costs (MX Real Estate)"

\* header: centred title, separator
DrawTitle ==
    /\ pc = "title"
    /\ LET title_w == TextWidth(title_text, fonts.title_font)
           title_x == (WIDTH - title_w) \div 2
           y1 == y + _get_font_size(fonts.title_font) + 60
       IN  /\ img' = Draw(<<Text("title", 0, title_x, y, title_text,
                                 fonts.title_font, palette.title_color),
                            Line("sep_title", y1, palette.separator_color)>>)
           /\ y' = y1 + 40
    /\ i' = 1
    /\ pc' = "summary"
    /\ UNCHANGED <<args, installed, default_size, palette, fonts, lf,
                   prepared_date, fs, today_reads, result, calls, history>>

SummaryEntryReversed(k) == args.purchase_summary[Len(args.purchase_summary) + 1 - k]

\* the k-th (key, value) of purchase_summary.items()
SummaryEntry(k) == args.purchase_summary[k]

\* for key, value in purchase_summary.items(): one row
DrawSummaryRow ==
    /\ pc = "summary"
    /\ i <= Len(args.purchase_summary)
    /\ img' = Draw(<<Text("summary", i, margin_x, y,
                          SummaryEntry(i)[1] \o ": " \o SummaryEntry(i)[2],
                          fonts.normal_font, palette.text_color)>>)
    /\ y' = y + _get_font_size(fonts.normal_font) + 12
    /\ i' = i + 1
    /\ UNCHANGED <<args, installed, default_size, pc, palette, fonts, lf,
                   prepared_date, fs, today_reads, result, calls, history>>

\* section_title = "Fee Breakdown:"; draw.text(...)
FeeHeading(yy) ==
    <<Text("fee_heading", 0, margin_x, yy, "Fee Breakdown:",
           fonts.section_font, palette.title_color)>>

\* after the summary loop: separator and the "Fee Breakdown:" heading
SummaryDone ==
    /\ pc = "summary"
    /\ i > Len(args.purchase_summary)
    /\ img' = Draw(<<Line("sep_summary", y + 30, palette.separator_color)>>
                   \o FeeHeading(y + 70))
    /\ y' = y + 70 + _get_font_size(fonts.section_font) + 20
    /\ i' = 1
    /\ pc' = "items"
    /\ UNCHANGED <<args, installed, default_size, palette, fonts, lf,
                   prepared_date, fs, today_reads, result, calls, history>>

amount_text_always_range(min_v, max_v) ==
    fmt_currency(min_v) \o " - " \o fmt_currency(max_v)

\* if min_v == max_v: ... else: ...
amount_text(min_v, max_v) ==
    IF min_v = max_v THEN fmt_currency(min_v)
    ELSE fmt_currency(min_v) \o " - " \o fmt_currency(max_v)

ItemAdvanceAsSummary(font) == _get_font_size(font) + 12

\* y += _get_font_size(normal_font) + 16
ItemAdvance(font) == _get_font_size(font) + 16

\* for desc, min_v, max_v, notes in line_items: one row
DrawLineItem ==
    /\ pc = "items"
    /\ i <= Len(args.line_items)
    /\ LET desc == args.line_items[i][1]
           min_v == args.line_items[i][2]
           max_v == args.line_items[i][3]
           notes == args.line_items[i][4]
       IN  img' = Draw(
               <<Text("item_desc", i, margin_x, y, desc,
                      fonts.normal_font, palette.text_color),
                 Text("item_amount", i, margin_x + 500, y, amount_text(min_v, max_v),
                      fonts.normal_font, palette.text_color)>>
               \o (IF notes # ""
                   THEN <<Text("item_note", i, margin_x + 900, y, "(" \o notes \o ")",
                               fonts.small_font, palette.text_color)>>
                   ELSE <<>>))
    /\ y' = y + ItemAdvance(fonts.normal_font)
    /\ i' = i + 1
    /\ UNCHANGED <<args, installed, default_size, pc, palette, fonts, lf,
                   prepared_date, fs, today_reads, result, calls, history>>

AddonsHeadingIfAny(yy) ==
    IF args.addons = <<>> THEN <<>>
    ELSE <<Text("addons_heading", 0, margin_x, yy, "Add-Ons Included:",
                fonts.section_font, palette.title_color)>>

\* section_title = "Add-Ons Included:"; draw.text(...)
AddonsHeading(yy) ==
    <<Text("addons_heading", 0, margin_x, yy, "Add-Ons Included:",
           fonts.section_font, palette.title_color)>>

\* after the line-item loop: separator, the two totals lines, separator and
\* the "Add-Ons Included:" heading
ItemsDone ==
    /\ pc = "items"
    /\ i > Len(args.line_items)
    /\ LET y1 == y + 30 + 40
           y2 == y1 + _get_font_size(fonts.totals_font) + 20
           y3 == y2 + _get_font_size(fonts.totals_font) + 30
           y4 == y3 + 40
       IN  /\ img' = Draw(
                  <<Line("sep_items", y + 30, palette.separator_color),
                    Text("range", 0, margin_x, y1,
                         "Estimated Range: " \o fmt_currency(args.est_min)
                             \o " - " \o fmt_currency(args.est_max),
                         fonts.totals_font, palette.text_color),
                    Text("rate", 0, margin_x, y2,
                         "Effective Rate: " \o fmt_pct(args.eff_min_pct)
                             \o "% - " \o fmt_pct(args.eff_max_pct) \o "%",
                         fonts.totals_font, palette.text_color),
                    Line("sep_totals", y3, palette.separator_color)>>
                  \o AddonsHeading(y4))
           /\ y' = y4 + _get_font_size(fonts.section_font) + 20
    /\ i' = 1
    /\ pc' = "addons"
    /\ UNCHANGED <<args, installed, default_size, palette, fonts, lf,
                   prepared_date, fs, today_reads, result, calls, history>>

\* for item in addons: one row
DrawAddon ==
    /\ pc = "addons"
    /\ i <= Len(args.addons)
    /\ img' = Draw(<<Text("addon", i, margin_x + 40, y, "- " \o args.addons[i],
                          fonts.normal_font, palette.text_color)>>)
    /\ y' = y + _get_font_size(fonts.normal_font) + 12
    /\ i' = i + 1
    /\ UNCHANGED <<args, installed, default_size, pc, palette, fonts, lf,
                   prepared_date, fs, today_reads, result, calls, history>>

NotNone(opt) == opt # None

\* if sponsor_text:
SponsorShown(opt) == Truthy(opt)

disclaimer == "Informational only; confirm with local professionals."

\* after the add-on loop: optional sponsor text, footer
AddonsDone ==
    /\ pc = "addons"
    /\ i > Len(args.addons)
    /\ y' = y + 30
    /\ LET footer_y == HEIGHT - 80
           disc_x == WIDTH - margin_x - TextWidth(disclaimer, fonts.small_font)
       IN  img' = Draw(
               (IF SponsorShown(args.sponsor_text)
                THEN <<Text("sponsor", 0,
                            (WIDTH - TextWidth(args.sponsor_text[1], fonts.small_font)) \div 2,
                            HEIGHT - 140, args.sponsor_text[1],
                            fonts.small_font, palette.text_color)>>
                ELSE <<>>)
               \o <<Text("prepared", 0, margin_x, footer_y,
                         "Prepared: " \o prepared_date[1],
                         fonts.small_font, palette.text_color),
                    Text("disclaimer", 0, disc_x, footer_y, disclaimer,
                         fonts.small_font, palette.text_color)>>)
    /\ pc' = "save"
    /\ UNCHANGED <<args, installed, default_size, palette, fonts, lf,
                   prepared_date, i, fs, today_reads, result, calls, history>>

SavePathDefault(filename) == "cierre_sensei_report.png"

\* the path img.save(filename) writes
SavePath(filename) == filename

AfterSaveSwallowed(ok) == [pc |-> "return", result |-> "none"]

\* img.save either returns or raises, and nothing catches what it raises
AfterSave(ok) ==
    IF ok THEN [pc |-> "return", result |-> "none"]
    ELSE [pc |-> "done", result |-> "raised"]

\* img.save(filename)
Save ==
    /\ pc = "save"
    /\ \E ok \in BOOLEAN :
        /\ fs' = Append(fs, [path |-> SavePath(args.filename), image |-> img, ok |-> ok])
        /\ pc' = AfterSave(ok).pc
        /\ result' = AfterSave(ok).result
    /\ UNCHANGED <<args, installed, default_size, palette, img, fonts, lf,
                   prepared_date, y, i, today_reads, calls, history>>

\* return img
Return ==
    /\ pc = "return"
    /\ result' = "image"
    /\ pc' = "done"
    /\ UNCHANGED <<args, installed, default_size, palette, img, fonts, lf,
                   prepared_date, y, i, fs, today_reads, calls, history>>

Next ==
    \/ Begin
    \/ TryCandidate
    \/ LoadDefault
    \/ LoadFontReturn
    \/ PrepareDate
    \/ DrawTitle
    \/ DrawSummaryRow
    \/ SummaryDone
    \/ DrawLineItem
    \/ ItemsDone
    \/ DrawAddon
    \/ AddonsDone
    \/ Save
    \/ Return

Spec == Init /\ [][Next]_vars


-----------------------------------------------------------------------------
(* Further calls in the same process *)

\* The caller calls again once a call has ended.  The variables that hold the
\* locals of the ended call keep their last values: a call gets fresh locals,
\* so nothing it does may depend on what they hold.
Recall ==
    /\ pc = "done"
    /\ calls < MaxCalls
    /\ history' = Append(history,
                         [args |-> args, fonts |-> fonts, img |-> img,
                          result |-> result, write |-> Len(fs)])
    /\ args' \in RepeatArgs
    /\ installed' \in {AllInstalled, {}}
    /\ calls' = calls + 1
    /\ pc' = "start"
    /\ result' = "none"
    /\ UNCHANGED <<default_size, palette, img, fonts, lf, prepared_date, y, i,
                   fs, today_reads>>

InitRepeat ==
    /\ args \in RepeatArgs
    /\ installed \in {AllInstalled, {}}
    /\ default_size = 11
    /\ Locals
    /\ fs = <<>>
    /\ today_reads = <<>>
    /\ calls = 1
    /\ history = <<>>

NextRepeat == Next \/ Recall

SpecRepeat == InitRepeat /\ [][NextRepeat]_vars

-----------------------------------------------------------------------------
(* Vocabulary of the properties *)

OpsOf(sec) == SelectSeq(img.ops, LAMBDA o : o.sec = sec)

Rendered == pc \in {"save", "return", "done"}

\* the candidate names as the documentation lists them
ListedCandidates(bold) ==
    IF bold THEN <<"DejaVuSans-Bold.ttf", "Arial Bold.ttf", "Arial-Bold.ttf">>
    ELSE <<"DejaVuSans.ttf", "Arial.ttf">>

\* positions of the listed candidates whose lookup succeeds
Openable(bold) ==
    {k \in 1..Len(ListedCandidates(bold)) : ListedCandidates(bold)[k] \in installed}

FirstOpenable(bold) == CHOOSE k \in Openable(bold) : \A m \in Openable(bold) : k <= m

\* the font a request must resolve to
Resolved(size, bold) ==
    IF Openable(bold) = {} THEN DefaultFont
    ELSE [kind |-> "truetype", name |-> ListedCandidates(bold)[FirstOpenable(bold)],
          size |-> size]

\* the requests whose font the running call has already bound
Bound ==
    IF pc = "start" THEN {}
    ELSE IF pc = "load_font" THEN 1..(lf.call - 1)
    ELSE 1..5

-----------------------------------------------------------------------------
(* C1: _load_font never raises; it tries the listed candidate names of the
   requested style in their listed order, returns the font of the first
   candidate whose lookup succeeds without trying a later one, falls through
   a failed lookup silently, and returns the built-in default font exactly
   when every candidate lookup failed. *)
C1_LoadFontFallback ==
    /\ pc = "load_font" =>
        /\ result = "none"
        /\ Len(lf.tried) <= Len(ListedCandidates(lf.bold))
        /\ \A k \in 1..Len(lf.tried) : lf.tried[k] = ListedCandidates(lf.bold)[k]
        /\ \A k \in 1..(Len(lf.tried) - 1) : lf.tried[k] \notin installed
        /\ lf.ret = NoFont => \A k \in 1..Len(lf.tried) : lf.tried[k] \notin installed
        /\ lf.ret # NoFont => lf.ret = Resolved(lf.size, lf.bold)
        /\ lf.ret.kind = "truetype" =>
            /\ lf.tried # <<>>
            /\ lf.ret.name = lf.tried[Len(lf.tried)]
            /\ lf.ret.name \in installed
        /\ lf.ret = DefaultFont <=>
            /\ lf.ret # NoFont
            /\ lf.tried = ListedCandidates(lf.bold)
            /\ \A k \in 1..Len(lf.tried) : lf.tried[k] \notin installed
    /\ result = "raised" => lf = NoFrame /\ fs # <<>>
    /\ \A k \in Bound :
        fonts[FontRequests[k].var] = Resolved(FontRequests[k].size, FontRequests[k].bold)

\* a bold request whose first lookup failed and whose second succeeded
C1_Witness ==
    /\ pc = "load_font"
    /\ lf.bold
    /\ Len(lf.tried) = 2
    /\ lf.ret.kind = "truetype"
    /\ lf.ret.name = "Arial Bold.ttf"
    /\ "DejaVuSans-Bold.ttf" \notin installed
    /\ "Arial-Bold.ttf" \in installed

(* C2: every call performs exactly one file write, to the path given by
   filename, after every drawing operation and immediately before the image
   is returned; nothing else is written. *)
C2_SingleWriteLast ==
    /\ Len(fs) = (IF pc \in {"return", "done"} THEN 1 ELSE 0)
    /\ fs # <<>> =>
        /\ fs[1].path = args.filename
        /\ fs[1].image = img
        /\ Len(OpsOf("title")) = 1
        /\ Len(OpsOf("summary")) = Len(args.purchase_summary)
        /\ Len(OpsOf("item_desc")) = Len(args.line_items)
        /\ Len(OpsOf("range")) = 1 /\ Len(OpsOf("rate")) = 1
        /\ Len(OpsOf("addon")) = Len(args.addons)
        /\ Len(OpsOf("sponsor")) = (IF Truthy(args.sponsor_text) THEN 1 ELSE 0)
        /\ img.ops[Len(img.ops)].sec = "disclaimer"
    /\ result = "image" => pc = "done" /\ fs # <<>> /\ fs[1].ok

\* a returned call whose file went to a path other than the default one
C2_Witness ==
    /\ pc = "done"
    /\ result = "image"
    /\ args.filename = "out/report.png"
    /\ Len(fs) = 1
    /\ fs[1].path = "out/report.png"

(* C3: a failed save is not caught, not retried and returns no image: the
   call ends in the error the save raised; a failed font lookup never ends
   the call in an error. *)
C3_SaveFailureFatal ==
    /\ \A k \in 1..Len(fs) : ~fs[k].ok =>
        /\ k = Len(fs)
        /\ pc = "done"
        /\ result = "raised"
    /\ result = "raised" => pc = "done" /\ Len(fs) = 1 /\ ~fs[1].ok
    /\ (pc = "done" /\ fs # <<>> /\ fs[Len(fs)].ok) => result = "image"
    /\ pc \notin {"return", "done"} => result = "none"

\* every font lookup failed and the call went on to the save, which failed
C3_Witness ==
    /\ pc = "done"
    /\ result = "raised"
    /\ installed = {}
    /\ \A k \in 1..5 : fonts[FontRequests[k].var] = DefaultFont
    /\ ~fs[1].ok


\* the rows of a section are one per drawn entry, top to bottom
Descending(rows) == \A k \in 2..Len(rows) : rows[k - 1].xy[2] < rows[k].xy[2]

PcOrder ==
    <<"start", "load_font", "date", "title", "summary", "items", "addons",
      "save", "return", "done">>

Rank(p) == CHOOSE k \in 1..Len(PcOrder) : PcOrder[k] = p

\* number of entries of coll the loop at position loop has drawn so far
Drawn(loop, coll) ==
    IF pc = loop THEN i - 1
    ELSE IF Rank(pc) > Rank(loop) THEN Len(coll)
    ELSE 0

(* C4: the entries of purchase_summary, of line_items and of addons are each
   drawn in the order supplied, one row per entry, none skipped, duplicated
   or reordered: the k-th entry is drawn before the (k+1)-th and strictly
   above it. *)
C4_RowsInSuppliedOrder ==
    LET srows == OpsOf("summary")
        drows == OpsOf("item_desc")
        arows == OpsOf("item_amount")
        orows == OpsOf("addon")
    IN  /\ Len(srows) = Drawn("summary", args.purchase_summary)
        /\ Len(drows) = Drawn("items", args.line_items)
        /\ Len(arows) = Len(drows)
        /\ Len(orows) = Drawn("addons", args.addons)
        /\ Len(srows) <= Len(args.purchase_summary)
        /\ Len(drows) <= Len(args.line_items)
        /\ Len(orows) <= Len(args.addons)
        /\ \A k \in 1..Len(srows) :
            srows[k].text = args.purchase_summary[k][1] \o ": " \o args.purchase_summary[k][2]
        /\ \A k \in 1..Len(drows) :
            /\ drows[k].text = args.line_items[k][1]
            /\ arows[k].xy[2] = drows[k].xy[2]
        /\ \A k \in 1..Len(orows) : orows[k].text = "- " \o args.addons[k]
        /\ Descending(srows) /\ Descending(drows) /\ Descending(orows)

\* two different entries in each collection, all drawn, with the built-in font
C4_Witness ==
    /\ pc = "done"
    /\ Len(args.purchase_summary) = 2
    /\ Len(args.line_items) = 2 /\ args.line_items[1] # args.line_items[2]
    /\ Len(args.addons) = 2 /\ args.addons[1] # args.addons[2]
    /\ fonts.normal_font = DefaultFont
    /\ Len(OpsOf("summary")) = 2 /\ Len(OpsOf("item_desc")) = 2 /\ Len(OpsOf("addon")) = 2

\* the amount texts the three line items of ItemEntries must show
Shown(item) ==
    IF item[1] = "ISAI 3%" THEN "$15,000"
    ELSE IF item[1] = "Credit" THEN "$-1,500 - $4,500"
    ELSE IF item[1] = "Rounding" THEN "$2 - $2"
    ELSE IF item[2] = item[3] THEN fmt_currency(item[2])
    ELSE fmt_currency(item[2]) \o " - " \o fmt_currency(item[3])

(* C5: the amount text of a line item is the single formatted min when
   min == max, and the formatted min and max joined by " - " when
   min != max, also when max < min; one amount text is drawn per item. *)
C5_RangeCollapsing ==
    LET arows == OpsOf("item_amount")
    IN  /\ Len(arows) <= Len(args.line_items)
        /\ Rendered => Len(arows) = Len(args.line_items)
        /\ \A k \in 1..Len(arows) :
            LET item == args.line_items[k]
            IN  /\ arows[k].idx = k
                /\ arows[k].text = Shown(item)
                /\ item[2] = item[3] => arows[k].text = fmt_currency(item[2])
                /\ item[2] # item[3] =>
                    arows[k].text = fmt_currency(item[2]) \o " - " \o fmt_currency(item[3])

\* a flat amount followed by a range whose max is below its min
C5_Witness ==
    /\ pc = "done"
    /\ Len(args.line_items) = 2
    /\ args.line_items[1][2] = args.line_items[1][3]
    /\ args.line_items[2][3] < args.line_items[2][2]
    /\ OpsOf("item_amount")[1].text = "$15,000"
    /\ OpsOf("item_amount")[2].text = "$2 - $2"

SomeEmpty ==
    args.addons = <<>> \/ args.line_items = <<>> \/ args.purchase_summary = <<>>

(* C6: with an empty addons, line_items or purchase_summary the render
   raises nothing, draws no row for the empty section, still draws both
   section headings, the four separators, the totals and the footer, reaches
   the file write, and returns the image. *)
C6_EmptyCollections ==
    SomeEmpty =>
        /\ pc \notin {"return", "done"} => result = "none" /\ ENABLED Next
        /\ result = "raised" => fs # <<>> /\ ~fs[Len(fs)].ok
        /\ (pc = "done" /\ result # "raised") => result = "image" /\ fs # <<>>
        /\ Rendered =>
            /\ Len(OpsOf("summary")) = Len(args.purchase_summary)
            /\ Len(OpsOf("item_desc")) = Len(args.line_items)
            /\ Len(OpsOf("item_amount")) = Len(args.line_items)
            /\ Len(OpsOf("addon")) = Len(args.addons)
            /\ Len(OpsOf("fee_heading")) = 1
            /\ OpsOf("fee_heading")[1].text = "Fee Breakdown:"
            /\ Len(OpsOf("addons_heading")) = 1
            /\ OpsOf("addons_heading")[1].text = "Add-Ons Included:"
            /\ Len(SelectSeq(img.ops, LAMBDA o : o.op = "line")) = 4
            /\ Len(OpsOf("range")) = 1 /\ Len(OpsOf("rate")) = 1
            /\ Len(OpsOf("prepared")) = 1 /\ Len(OpsOf("disclaimer")) = 1

\* all three collections empty, the image written and returned
C6_Witness ==
    /\ pc = "done"
    /\ result = "image"
    /\ args.addons = <<>> /\ args.line_items = <<>> /\ args.purchase_summary = <<>>
    /\ Len(OpsOf("addons_heading")) = 1
    /\ Len(OpsOf("addon")) = 0
    /\ fs[1].ok

(* C7: the canvas is filled, before anything is drawn, with white for
   theme "light" and with (30,50,80) for theme "dark"; the whole palette is
   chosen once from the theme and is the light one exactly when theme equals
   "light", any other theme getting the dark one without an error. *)
C7_ThemeSelection ==
    LET light == args.theme = "light"
    IN  pc # "start" =>
            /\ img.bg = (IF light THEN <<255, 255, 255>> ELSE <<30, 50, 80>>)
            /\ img.bg = palette.bg_color
            /\ palette.title_color = (IF light THEN <<0, 0, 0>> ELSE <<100, 150, 255>>)
            /\ palette.text_color = (IF light THEN <<0, 0, 0>> ELSE <<255, 255, 255>>)
            /\ palette.separator_color
                   = (IF light THEN <<100, 100, 100>> ELSE <<150, 180, 220>>)
            /\ palette.box_outline = (IF light THEN <<0, 0, 0>> ELSE <<150, 180, 220>>)
            /\ pc \in {"load_font", "date", "title"} => img.ops = <<>>
            /\ \A k \in 1..Len(img.ops) :
                img.ops[k].fill =
                    (IF img.ops[k].op = "line" THEN palette.separator_color
                     ELSE IF img.ops[k].sec \in {"title", "fee_heading", "addons_heading"}
                          THEN palette.title_color
                     ELSE palette.text_color)
            /\ result = "raised" => ~fs[Len(fs)].ok

\* a light render returned, and written with the white background
C7_Witness ==
    /\ pc = "done"
    /\ result = "image"
    /\ args.theme = "light"
    /\ fs[1].image.bg = <<255, 255, 255>>
    /\ img.ops # <<>>


IsPrefix(a, b) == Len(a) <= Len(b) /\ \A k \in 1..Len(a) : a[k] = b[k]

\* the ended calls that had the arguments of the running call, an explicit
\* prepared_date among them, and the same outcome of every font lookup
SameCall ==
    {h \in 1..Len(history) :
        /\ history[h].args = args
        /\ args.prepared_date # None
        /\ history[h].fonts = fonts}

\* number of calls so far that have executed date.today()
CallsReadingToday ==
    Cardinality({h \in 1..Len(history) : history[h].args.prepared_date = None})
        + (IF args.prepared_date = None /\ Rank(pc) > Rank("date") THEN 1 ELSE 0)

(* C8: two calls with identical arguments, an explicit prepared_date among
   them, and the same font-lookup outcomes issue the identical sequence of
   drawing operations and write the identical image, whatever calls were
   made before; the current date is read only when prepared_date is None,
   and a supplied prepared_date appears verbatim in the one "Prepared:"
   label. *)
C8_Deterministic ==
    /\ \A h \in SameCall :
        /\ Rank(pc) > Rank("load_font") =>
            /\ img.bg = history[h].img.bg
            /\ img.size = history[h].img.size
            /\ IsPrefix(img.ops, history[h].img.ops)
        /\ Rendered => img = history[h].img
        /\ pc \in {"return", "done"} =>
            /\ fs[Len(fs)].image = fs[history[h].write].image
            /\ fs[Len(fs)].path = fs[history[h].write].path
    /\ Len(today_reads) = CallsReadingToday
    /\ Rendered =>
        /\ Len(OpsOf("prepared")) = 1
        /\ args.prepared_date = Some("12/1/2025") =>
            OpsOf("prepared")[1].text = "Prepared: 12/1/2025"
        /\ args.prepared_date = None =>
            OpsOf("prepared")[1].text
                = "Prepared: " \o fmt_date(today_reads[Len(today_reads)])

\* a third call repeating the first after a different second one
C8_Witness ==
    /\ calls = 3
    /\ pc = "done"
    /\ result = "image"
    /\ 1 \in SameCall
    /\ history[2].args # args
    /\ img = history[1].img
    /\ Len(img.ops) > 10

RECURSIVE ItemSecs(_)
ItemSecs(items) ==
    IF items = <<>> THEN <<>>
    ELSE <<"item_desc", "item_amount">>
             \o (IF Head(items)[4] # "" THEN <<"item_note">> ELSE <<>>)
             \o ItemSecs(Tail(items))

\* the statements a complete render must have drawn, in order
ExpectedSecs ==
    <<"title", "sep_title">>
        \o [k \in 1..Len(args.purchase_summary) |-> "summary"]
        \o <<"sep_summary", "fee_heading">>
        \o ItemSecs(args.line_items)
        \o <<"sep_items", "range", "rate", "sep_totals", "addons_heading">>
        \o [k \in 1..Len(args.addons) |-> "addon"]
        \o (IF args.sponsor_text # None /\ args.sponsor_text # Some("")
            THEN <<"sponsor">> ELSE <<>>)
        \o <<"prepared", "disclaimer">>

Separators == {"sep_title", "sep_summary", "sep_items", "sep_totals"}

(* C9: a render emits title, summary rows, "Fee Breakdown:" heading, item
   rows, Estimated Range then Effective Rate, "Add-Ons Included:" heading,
   add-on rows, optional sponsor text and footer in that order, with one
   separator line between adjacent sections from title through add-ons (four
   in all); a note is drawn, parenthesized, only when non-empty; the sponsor
   text is drawn exactly when sponsor_text is neither None nor "". *)
C9_SectionOrder ==
    /\ IsPrefix([k \in 1..Len(img.ops) |-> img.ops[k].sec], ExpectedSecs)
    /\ Rendered => [k \in 1..Len(img.ops) |-> img.ops[k].sec] = ExpectedSecs
    /\ \A k \in 1..Len(img.ops) :
        LET o == img.ops[k]
        IN  /\ o.op = "line" <=> o.sec \in Separators
            /\ o.sec = "title" => o.text = "Estimated Closing Costs (MX Real Estate)"
            /\ o.sec = "fee_heading" => o.text = "Fee Breakdown:"
            /\ o.sec = "addons_heading" => o.text = "Add-Ons Included:"
            /\ o.sec = "item_note" =>
                /\ args.line_items[o.idx][4] # ""
                /\ o.text = "(" \o args.line_items[o.idx][4] \o ")"
            /\ o.sec = "sponsor" => o.text = args.sponsor_text[1] /\ o.text # ""
            /\ (o.sec = "range" /\ args.est_min = 58280 /\ args.est_max = 69920) =>
                o.text = "Estimated Range: $29,140 - $34,960"
            /\ (o.sec = "rate" /\ args.eff_min_pct = 58 /\ args.eff_max_pct = 70) =>
                o.text = "Effective Rate: 5.8% - 7.0%"
            /\ o.sec = "disclaimer" =>
                o.text = "Informational only; confirm with local professionals."

\* a render with an empty-string sponsor text: no sponsor text is drawn
C9_Witness ==
    /\ pc = "done"
    /\ args.sponsor_text = Some("")
    /\ Len(OpsOf("sponsor")) = 0
    /\ Len(SelectSeq(img.ops, LAMBDA o : o.op = "line")) = 4
    /\ img.ops[Len(img.ops)].sec = "disclaimer"

AllResolved == \A k \in 1..5 : fonts[FontRequests[k].var].kind = "truetype"

SizeOf(font) == IF font.kind = "truetype" THEN font.size ELSE default_size

\* the cursor after a complete render, from the sizes of the resolved fonts
FinalCursor ==
    LET S == Len(args.purchase_summary)
        L == Len(args.line_items)
        A == Len(args.addons)
        T == SizeOf(fonts.title_font)
        H == SizeOf(fonts.section_font)
        N == SizeOf(fonts.normal_font)
        R == SizeOf(fonts.totals_font)
    IN  500 + T + 2 * H + 2 * R + S * (N + 12) + L * (N + 16) + A * (N + 12)

C10_CursorInv ==
    /\ pc = "title" => y = 100
    /\ Rendered =>
        /\ y = FinalCursor
        /\ AllResolved =>
            y = 732 + 44 * Len(args.purchase_summary) + 48 * Len(args.line_items)
                    + 44 * Len(args.addons)
        /\ (AllResolved /\ args = ExampleArgs) => y = 1844
        /\ \A k \in 1..Len(img.ops) :
            /\ img.ops[k].sec = "sponsor" => img.ops[k].xy[2] = 2260
            /\ img.ops[k].sec \in {"prepared", "disclaimer"} => img.ops[k].xy[2] = 2320
            /\ img.ops[k].sec \notin {"sponsor", "prepared", "disclaimer"} =>
                img.ops[k].xy[2] < y

(* C10: the cursor y starts at the top margin 100, is only ever increased
   and is never clamped to the canvas height; with every font resolved at
   its requested size it ends at 732 + 44*S + 48*L + 44*A (1844 for the
   example input), while the sponsor text and the footer are drawn at the
   fixed y = 2260 and y = 2320 whatever the cursor is. *)
C10_LayoutCursor ==
    /\ []C10_CursorInv
    /\ [][/\ y' >= y
          /\ (img'.ops # img.ops /\ pc # "start") => y' > y]_vars

\* the example input rendered with every font resolved
C10_Witness ==
    /\ pc = "done"
    /\ args = ExampleArgs
    /\ AllResolved
    /\ y = 1844
    /\ OpsOf("prepared")[1].xy[2] = 2320

====
